---- MODULE Spec2Model ----
(***************************************************************************)
(* Model of nerdle_solve_in_2.py: the loader, the feedback engine          *)
(* (compute_feedback), the all-pairs loop of main that counts distinct     *)
(* non-winning feedback patterns per first guess, the ranking and the CSV  *)
(* writer.                                                                 *)
(*                                                                         *)
(* Python indices are 0-based; sequences here are 1-based, so position i   *)
(* of the source is position i+1 of the model and the weight of position p *)
(* in the base-3 hash is 3^(p-1).                                          *)
(***************************************************************************)
EXTENDS Integers, Sequences, FiniteSets, TLC

\* ------------------------------------------------------------------------
\* Bounds of the model
\* ------------------------------------------------------------------------

\* Number of different characters in the words handed to the feedback engine.
NumChars == 2

\* Largest number of lines in the input file.
MaxLines == 4

\* ------------------------------------------------------------------------
\* Program constants
\* ------------------------------------------------------------------------

\* Every record has 8 characters (assert len(s) == 8, the (n, 8) array).
WordLen == 8

\* encoded is a uint8 array: a code is stored modulo 2^8.
ByteMod == 256

\* ------------------------------------------------------------------------
\* Characters
\* ------------------------------------------------------------------------

\* The characters of the equations, and the white space str.strip() removes.
Chars ==
    {"0", "1", "2", "3", "4", "5", "6", "7", "8", "9",
     "+", "-", "*", "/", "=", " ", "\n"}

\* ord(c)
Ord(c) ==
    CASE c = "0" -> 48 [] c = "1" -> 49 [] c = "2" -> 50 [] c = "3" -> 51
      [] c = "4" -> 52 [] c = "5" -> 53 [] c = "6" -> 54 [] c = "7" -> 55
      [] c = "8" -> 56 [] c = "9" -> 57 [] c = "+" -> 43 [] c = "-" -> 45
      [] c = "*" -> 42 [] c = "/" -> 47 [] c = "=" -> 61 [] c = " " -> 32
      [] c = "\n" -> 10

Positions == 1..WordLen

\* ------------------------------------------------------------------------
\* encode_solutions
\* ------------------------------------------------------------------------

\* One row of encode_solutions: zeros, then encoded[i, j] = ord(c) for the
\* characters of the word (stored as uint8).
EncodeWord(s) ==
    [j \in Positions |-> IF j <= Len(s) THEN Ord(s[j]) % ByteMod ELSE 0]

encode_solutions(sols) ==
    [i \in 1..Len(sols) |-> EncodeWord(sols[i])]

\* ------------------------------------------------------------------------
\* compute_feedback, for one row of all_secrets
\* ------------------------------------------------------------------------

\* greens = guess[np.newaxis, :] == all_secrets
Greens(guess, secret) ==
    [p \in Positions |-> guess[p] = secret[p]]

\* result = zeros; result[greens] = 2
Pass1(guess, secret) ==
    [p \in Positions |-> IF Greens(guess, secret)[p] THEN 2 ELSE 0]

\* The elements of a set of integers in ascending order.
RECURSIVE SortedSeq(_)
SortedSeq(S) ==
    IF S = {} THEN <<>>
    ELSE LET m == CHOOSE x \in S : \A y \in S : x <= y
         IN  <<m>> \o SortedSeq(S \ {m})

\* np.unique(guess): the distinct characters of the guess, sorted.
UniqueChars(guess) ==
    SortedSeq({guess[p] : p \in Positions})

\* Fault: the positions of char are walked from the right.
RECURSIVE DescendingSeq(_)
DescendingSeq(S) ==
    IF S = {} THEN <<>>
    ELSE LET m == CHOOSE x \in S : \A y \in S : x >= y
         IN  <<m>> \o DescendingSeq(S \ {m})

GuessPositionsDescending(guess, char) ==
    DescendingSeq({p \in Positions : guess[p] = char})

\* np.where(guess == char)[0]: the positions holding char, ascending.
GuessPositions(guess, char) ==
    SortedSeq({p \in Positions : guess[p] = char})

\* Fault: the occurrences matched in place are not taken off.
RemainingWithGreens(guess, secret, char) ==
    Cardinality({i \in Positions : secret[i] = char})

\* remaining = char_in_secret.sum(axis=1) - char_green.sum(axis=1)
Remaining(guess, secret, char) ==
    Cardinality({i \in Positions : secret[i] = char})
      - Cardinality({i \in Positions : Greens(guess, secret)[i] /\ secret[i] = char})

\* for p in guess_positions: can_purple = ~is_green_here & (assigned < remaining);
\* result[can_purple, p] = 1; assigned[can_purple] += 1
RECURSIVE WalkPositions(_, _, _, _, _)
WalkPositions(result, assigned, ps, greens, remaining) ==
    IF ps = <<>> THEN result
    ELSE LET p          == Head(ps)
             can_purple == (~greens[p]) /\ (assigned < remaining)
         IN  IF can_purple
             THEN WalkPositions([result EXCEPT ![p] = 1], assigned + 1,
                                Tail(ps), greens, remaining)
             ELSE WalkPositions(result, assigned, Tail(ps), greens, remaining)

\* The body of "for char in np.unique(guess)" for one character.
PurplePass(result, guess, secret, char) ==
    WalkPositions(result, 0, GuessPositions(guess, char),
                  Greens(guess, secret), Remaining(guess, secret, char))

\* The loop over the characters of the guess.
RECURSIVE PurpleLoop(_, _, _, _)
PurpleLoop(result, guess, secret, chars) ==
    IF chars = <<>> THEN result
    ELSE PurpleLoop(PurplePass(result, guess, secret, Head(chars)),
                    guess, secret, Tail(chars))

\* The (8,) feedback of one guess against one secret, before hashing.
FeedbackRow(guess, secret) ==
    PurpleLoop(Pass1(guess, secret), guess, secret, UniqueChars(guess))

\* Fault: the exponents run from 1 to 8.
PowersFromOne ==
    [p \in Positions |-> 3 ^ p]

\* powers = [3 ** i for i in range(8)]
Powers ==
    [p \in Positions |-> 3 ^ (p - 1)]

RECURSIVE WeightedSum(_, _)
WeightedSum(result, p) ==
    IF p = 0 THEN 0 ELSE result[p] * Powers[p] + WeightedSum(result, p - 1)

\* Fault: the greens are hashed instead of result, so a present-elsewhere
\* mark counts as absent.
PatternHashOfGreens(result) ==
    WeightedSum([p \in Positions |-> IF result[p] = 2 THEN 2 ELSE 0], WordLen)

\* (result.astype(np.int64) * powers).sum(axis=1), for one row
PatternHash(result) ==
    WeightedSum(result, WordLen)

\* ALL_GREEN_HASH = sum(2 * (3 ** i) for i in range(8))
RECURSIVE GreenSum(_)
GreenSum(p) ==
    IF p = 0 THEN 0 ELSE 2 * (3 ^ (p - 1)) + GreenSum(p - 1)

ALL_GREEN_HASH ==
    GreenSum(WordLen)

\* compute_feedback(guess, all_secrets): one hash per secret.
compute_feedback(guess, all_secrets) ==
    [i \in 1..Len(all_secrets) |-> PatternHash(FeedbackRow(guess, all_secrets[i]))]

\* ------------------------------------------------------------------------
\* load_solutions
\* ------------------------------------------------------------------------

IsSpace(c) ==
    c \in {" ", "\n"}

RECURSIVE LStrip(_)
LStrip(s) ==
    IF s # <<>> /\ IsSpace(Head(s)) THEN LStrip(Tail(s)) ELSE s

RECURSIVE RStrip(_)
RStrip(s) ==
    IF s # <<>> /\ IsSpace(s[Len(s)]) THEN RStrip(SubSeq(s, 1, Len(s) - 1)) ELSE s

\* line.strip()
Strip(s) ==
    RStrip(LStrip(s))

NonBlank(s) ==
    s # <<>>

\* solutions = [line.strip() for line in f if line.strip()]
StrippedRecords(file) ==
    SelectSeq([i \in 1..Len(file) |-> Strip(file[i])], NonBlank)

\* Fault: the length of the records is not checked.
RecordsUnchecked(sols) ==
    TRUE

\* for s in solutions: assert len(s) == 8
RecordsValid(sols) ==
    \A i \in 1..Len(sols) : Len(sols[i]) = WordLen

\* ------------------------------------------------------------------------
\* The body of the loop over the guesses, and the ranking
\* ------------------------------------------------------------------------

\* Fault: the hashes are counted without np.unique.
GuessResultNoUnique(np, enc, g) ==
    LET hashes == compute_feedback(enc[g], enc)
        unique == {hashes[i] : i \in 1..Len(enc)}
    IN  [np EXCEPT ![g] = Len(enc) - (IF ALL_GREEN_HASH \in unique THEN 1 ELSE 0)]

\* Fault: the all-green pattern is counted too.
GuessResultKeepGreen(np, enc, g) ==
    LET hashes == compute_feedback(enc[g], enc)
        unique == {hashes[i] : i \in 1..Len(enc)}
    IN  [np EXCEPT ![g] = Cardinality(unique)]

\* Fault: num_patterns is created anew in every iteration.
GuessResultResetting(np, enc, g) ==
    LET hashes == compute_feedback(enc[g], enc)
        unique == {hashes[i] : i \in 1..Len(enc)}
    IN  [i \in 1..Len(enc) |->
            IF i = g
            THEN Cardinality(unique) - (IF ALL_GREEN_HASH \in unique THEN 1 ELSE 0)
            ELSE 0]

\* hashes = compute_feedback(encoded[gi], encoded); unique = np.unique(hashes);
\* num_patterns[gi] = len(unique) - int(ALL_GREEN_HASH in unique)
GuessResult(np, enc, g) ==
    LET hashes == compute_feedback(enc[g], enc)
        unique == {hashes[i] : i \in 1..Len(enc)}
    IN  [np EXCEPT ![g] = Cardinality(unique)
                            - (IF ALL_GREEN_HASH \in unique THEN 1 ELSE 0)]

\* A probability is kept as the fraction <<numerator, denominator>>.
\* p_solve2 = num_patterns / N
Probabilities(np, n) ==
    [i \in 1..n |-> <<np[i], n>>]

\* Fault: the probabilities are sorted without the sign change.
NotNegated(p) ==
    p

\* -p_solve2
Negated(p) ==
    [i \in DOMAIN p |-> <<0 - p[i][1], p[i][2]>>]

\* a <= b for fractions with positive denominators
FracLeq(a, b) ==
    a[1] * b[2] <= b[1] * a[2]

\* np.argsort(keys): the index arrays that list every index once with the
\* keys in ascending order; the order among equal keys is left to the sort.
ArgSorts(keys) ==
    LET n == Len(keys)
    IN  {o \in [1..n -> 1..n] :
            /\ \A i, j \in 1..n : i # j => o[i] # o[j]
            /\ \A i \in 1..n : \A j \in 1..n :
                  i < j => FracLeq(keys[o[i]], keys[o[j]])}

\* f"{p:.8f}": the probability in units of 10^-8, rounded to nearest.
Format8(p) ==
    (2 * p[1] * 100000000 + p[2]) \div (2 * p[2])

\* Fault: the count and the probability are taken at the rank.
CsvRowByRank(rank, idx, sols, np, p) ==
    <<rank, sols[idx], np[rank], Format8(p[rank])>>

\* f"{rank},{solutions[idx]},{num_patterns[idx]},{p_solve2[idx]:.8f}\n"
CsvRow(rank, idx, sols, np, p) ==
    <<rank, sols[idx], np[idx], Format8(p[idx])>>

\* ------------------------------------------------------------------------
\* Inputs of the model
\* ------------------------------------------------------------------------

\* Lines the input file may hold: four equations (with and without the line
\* end, one with leading white space), a blank line, a record that is too
\* short and one that is too long.
LinePool ==
    { <<"1", "1", "+", "1", "1", "=", "2", "2", "\n">>,
      <<"3", "3", "+", "3", "3", "=", "6", "6", "\n">>,
      <<" ", "4", "4", "+", "4", "4", "=", "8", "8", "\n">>,
      <<"1", "2", "+", "1", "2", "=", "2", "4">>,
      <<" ", "\n">>,
      <<"1", "+", "1", "=", "2", "\n">>,
      <<"1", "0", "0", "+", "1", "=", "1", "0", "1", "\n">> }

Files ==
    UNION {[1..n -> LinePool] : n \in 0..MaxLines}

\* The characters of the words given to the feedback engine on its own.
CharList ==
    <<"1", "2", "+", "=", "3", "-", "4", "6", "8">>

Alphabet ==
    {CharList[i] : i \in 1..NumChars}

Words ==
    [Positions -> Alphabet]

\* ------------------------------------------------------------------------
\* State
\* ------------------------------------------------------------------------

VARIABLES
    fileExists,     \* os.path.exists(data_path)
    lines,          \* the lines of NerdleClassicRestricted.txt
    pc,             \* where main is: start, loop, derived, report, done, error
    err,            \* why main stopped: none, missing_file, bad_record, index_error
    solutions,      \* solutions
    encoded,        \* encoded
    gi,             \* the loop variable gi (1-based)
    processed,      \* the guesses whose feedback has been computed
    num_patterns,   \* num_patterns
    p_solve2,       \* p_solve2
    order,          \* order
    best_idx,       \* best_idx (0 before it is set)
    worst_idx,      \* worst_idx (0 before it is set)
    csvOpen,        \* nerdle_results_full.csv has been created
    csv,            \* the rows written to it after the header
    fpc,            \* where a single compute_feedback call is
    gword,          \* its guess, as a word
    sword,          \* its secret, as a word
    guessArr,       \* guess
    secretArr,      \* the row of all_secrets
    result,         \* result, for that row
    chars,          \* the characters of np.unique(guess) not yet walked
    hash            \* pattern_hashes, for that row

mainVars ==
    <<fileExists, lines, pc, err, solutions, encoded, gi, processed,
      num_patterns, p_solve2, order, best_idx, worst_idx, csvOpen, csv>>

fbVars ==
    <<fpc, gword, sword, guessArr, secretArr, result, chars, hash>>

vars ==
    <<fileExists, lines, pc, err, solutions, encoded, gi, processed,
      num_patterns, p_solve2, order, best_idx, worst_idx, csvOpen, csv,
      fpc, gword, sword, guessArr, secretArr, result, chars, hash>>

N ==
    Len(solutions)

\* ------------------------------------------------------------------------
\* main
\* ------------------------------------------------------------------------

MainStart ==
    /\ pc = "start"
    /\ err = "none"
    /\ solutions = <<>>
    /\ encoded = <<>>
    /\ gi = 0
    /\ processed = {}
    /\ num_patterns = <<>>
    /\ p_solve2 = <<>>
    /\ order = <<>>
    /\ best_idx = 0
    /\ worst_idx = 0
    /\ csvOpen = FALSE
    /\ csv = <<>>

FeedbackIdle ==
    /\ fpc = "idle"
    /\ gword = <<>>
    /\ sword = <<>>
    /\ guessArr = <<>>
    /\ secretArr = <<>>
    /\ result = <<>>
    /\ chars = <<>>
    /\ hash = 0

\* The program is started on a file system where the data file is absent, or
\* holds some lines.
Init ==
    /\ \/ fileExists = FALSE /\ lines = <<>>
       \/ fileExists = TRUE /\ lines \in Files
    /\ MainStart
    /\ FeedbackIdle

\* if not os.path.exists(data_path): sys.exit(...)
MissingFile ==
    /\ pc = "start"
    /\ ~fileExists
    /\ pc' = "error"
    /\ err' = "missing_file"
    /\ UNCHANGED <<fileExists, lines, solutions, encoded, gi, processed,
                   num_patterns, p_solve2, order, best_idx, worst_idx,
                   csvOpen, csv>>
    /\ UNCHANGED fbVars

\* load_solutions raises AssertionError on a record that is not 8 long.
LoadFail ==
    /\ pc = "start"
    /\ fileExists
    /\ ~RecordsValid(StrippedRecords(lines))
    /\ pc' = "error"
    /\ err' = "bad_record"
    /\ UNCHANGED <<fileExists, lines, solutions, encoded, gi, processed,
                   num_patterns, p_solve2, order, best_idx, worst_idx,
                   csvOpen, csv>>
    /\ UNCHANGED fbVars

\* solutions = load_solutions(data_path); encoded = encode_solutions(solutions);
\* num_patterns = np.zeros(N); the loop starts at gi = 0.
LoadOk ==
    /\ pc = "start"
    /\ fileExists
    /\ RecordsValid(StrippedRecords(lines))
    /\ solutions' = StrippedRecords(lines)
    /\ encoded' = encode_solutions(StrippedRecords(lines))
    /\ num_patterns' = [i \in 1..Len(StrippedRecords(lines)) |-> 0]
    /\ gi' = 1
    /\ pc' = "loop"
    /\ UNCHANGED <<fileExists, lines, err, processed, p_solve2, order,
                   best_idx, worst_idx, csvOpen, csv>>
    /\ UNCHANGED fbVars

\* One iteration of "for gi in range(N)".
GuessStep ==
    /\ pc = "loop"
    /\ gi <= N
    /\ num_patterns' = GuessResult(num_patterns, encoded, gi)
    /\ processed' = processed \cup {gi}
    /\ gi' = gi + 1
    /\ UNCHANGED <<fileExists, lines, pc, err, solutions, encoded, p_solve2,
                   order, best_idx, worst_idx, csvOpen, csv>>
    /\ UNCHANGED fbVars

\* p_solve2 = num_patterns / N
Derive ==
    /\ pc = "loop"
    /\ gi > N
    /\ p_solve2' = Probabilities(num_patterns, N)
    /\ pc' = "derived"
    /\ UNCHANGED <<fileExists, lines, err, solutions, encoded, gi, processed,
                   num_patterns, order, best_idx, worst_idx, csvOpen, csv>>
    /\ UNCHANGED fbVars

\* order = np.argsort(-p_solve2); best_idx = order[0]; worst_idx = order[-1]
Rank ==
    /\ pc = "derived"
    /\ N > 0
    /\ order' \in ArgSorts(Negated(p_solve2))
    /\ best_idx' = order'[1]
    /\ worst_idx' = order'[N]
    /\ pc' = "report"
    /\ UNCHANGED <<fileExists, lines, err, solutions, encoded, gi, processed,
                   num_patterns, p_solve2, csvOpen, csv>>
    /\ UNCHANGED fbVars

\* With an empty list order is empty and order[0] raises IndexError.
RankFail ==
    /\ pc = "derived"
    /\ N = 0
    /\ pc' = "error"
    /\ err' = "index_error"
    /\ UNCHANGED <<fileExists, lines, solutions, encoded, gi, processed,
                   num_patterns, p_solve2, order, best_idx, worst_idx,
                   csvOpen, csv>>
    /\ UNCHANGED fbVars

\* The rows of "for rank, idx in enumerate(order, 1)", ranks 1..k.
RECURSIVE CsvRows(_, _, _, _, _)
CsvRows(k, ord, sols, np, p) ==
    IF k = 0 THEN <<>>
    ELSE Append(CsvRows(k - 1, ord, sols, np, p), CsvRow(k, ord[k], sols, np, p))

\* with open(csv_path, "w") as f: the header and one row per entry of order;
\* then main returns.
WriteCsv ==
    /\ pc = "report"
    /\ csvOpen' = TRUE
    /\ csv' = CsvRows(Len(order), order, solutions, num_patterns, p_solve2)
    /\ pc' = "done"
    /\ UNCHANGED <<fileExists, lines, err, solutions, encoded, gi, processed,
                   num_patterns, p_solve2, order, best_idx, worst_idx>>
    /\ UNCHANGED fbVars

Next ==
    \/ MissingFile
    \/ LoadFail
    \/ LoadOk
    \/ GuessStep
    \/ Derive
    \/ Rank
    \/ RankFail
    \/ WriteCsv

Spec ==
    Init /\ [][Next]_vars

\* ------------------------------------------------------------------------
\* The loop over the guesses taken in any order
\* ------------------------------------------------------------------------

\* The body of the loop for any guess not yet processed; gi counts the
\* iterations.
AnyGuessStep ==
    /\ pc = "loop"
    /\ \E g \in (1..N) \ processed :
          /\ num_patterns' = GuessResult(num_patterns, encoded, g)
          /\ processed' = processed \cup {g}
    /\ gi' = gi + 1
    /\ UNCHANGED <<fileExists, lines, pc, err, solutions, encoded, p_solve2,
                   order, best_idx, worst_idx, csvOpen, csv>>
    /\ UNCHANGED fbVars

NextAnyOrder ==
    \/ MissingFile
    \/ LoadFail
    \/ LoadOk
    \/ AnyGuessStep
    \/ Derive
    \/ Rank
    \/ RankFail
    \/ WriteCsv

SpecAnyOrder ==
    Init /\ [][NextAnyOrder]_vars

\* ------------------------------------------------------------------------
\* One call of compute_feedback on one guess and one secret
\* ------------------------------------------------------------------------

InitFeedback ==
    /\ fileExists = FALSE
    /\ lines = <<>>
    /\ MainStart
    /\ fpc = "call"
    /\ gword \in Words
    /\ sword \in Words
    /\ guessArr = <<>>
    /\ secretArr = <<>>
    /\ result = <<>>
    /\ chars = <<>>
    /\ hash = 0

\* The arguments are rows of encode_solutions.
FbEncode ==
    /\ fpc = "call"
    /\ guessArr' = EncodeWord(gword)
    /\ secretArr' = EncodeWord(sword)
    /\ fpc' = "pass1"
    /\ UNCHANGED <<gword, sword, result, chars, hash>>
    /\ UNCHANGED mainVars

\* Pass 1: mark greens.
FbPass1 ==
    /\ fpc = "pass1"
    /\ result' = Pass1(guessArr, secretArr)
    /\ chars' = UniqueChars(guessArr)
    /\ fpc' = "pass2"
    /\ UNCHANGED <<gword, sword, guessArr, secretArr, hash>>
    /\ UNCHANGED mainVars

\* Pass 2: one iteration of "for char in np.unique(guess)".
FbPass2 ==
    /\ fpc = "pass2"
    /\ chars # <<>>
    /\ result' = PurplePass(result, guessArr, secretArr, Head(chars))
    /\ chars' = Tail(chars)
    /\ UNCHANGED <<fpc, gword, sword, guessArr, secretArr, hash>>
    /\ UNCHANGED mainVars

\* Encode as a single integer.
FbHash ==
    /\ fpc = "pass2"
    /\ chars = <<>>
    /\ hash' = PatternHash(result)
    /\ fpc' = "done"
    /\ UNCHANGED <<gword, sword, guessArr, secretArr, result, chars>>
    /\ UNCHANGED mainVars

NextFeedback ==
    \/ FbEncode
    \/ FbPass1
    \/ FbPass2
    \/ FbHash

SpecFeedback ==
    InitFeedback /\ [][NextFeedback]_vars

\* ------------------------------------------------------------------------
\* Properties of compute_feedback
\* ------------------------------------------------------------------------

\* Occurrences of character c in word w.
Occ(c, w) ==
    Cardinality({i \in Positions : w[i] = c})

\* The mark of position p by the left-to-right running-counter rule.
ExpectedMark(G, S, p) ==
    IF G[p] = S[p] THEN 2
    ELSE LET c       == G[p]
             earlier == Cardinality({q \in 1..(p - 1) : G[q] = c /\ G[q] # S[q]})
             avail   == Occ(c, S) - Cardinality({i \in Positions : G[i] = c /\ S[i] = c})
         IN  IF earlier < avail THEN 1 ELSE 0

ExpectedPattern(G, S) ==
    [p \in Positions |-> ExpectedMark(G, S, p)]

\* C1: when compute_feedback returns, every position p is marked 2 iff
\* G[p] = S[p]; otherwise 1 iff the number of earlier non-match positions of
\* the guess holding the same character is less than the occurrences of that
\* character in S that are not matched; otherwise 0.
C1_LeftToRightMarks ==
    fpc = "done" => \A p \in Positions : result[p] = ExpectedMark(gword, sword, p)

\* A duplicated character of the guess gets present-elsewhere at its leftmost
\* non-match position and absent at a later one.
C1_Witness ==
    /\ fpc = "done"
    /\ \E p, q \in Positions :
          /\ p < q
          /\ gword[p] = gword[q]
          /\ result[p] = 1
          /\ result[q] = 0
          /\ Occ(gword[p], sword) > 0

\* Positions of the guess holding c that are marked match or present-elsewhere.
Credited(c) ==
    Cardinality({p \in Positions : gword[p] = c /\ result[p] # 0})

\* C2: for every character c the number of guess positions holding c that are
\* marked match or present-elsewhere exceeds neither the occurrences of c in
\* the guess nor the occurrences of c in the secret.
C2_CreditBounded ==
    fpc = "done" =>
        \A c \in Chars : Credited(c) <= Occ(c, gword) /\ Credited(c) <= Occ(c, sword)

\* The guess holds a character more often than the secret, and the credit
\* stops at the secret's count.
C2_Witness ==
    /\ fpc = "done"
    /\ \E c \in Chars :
          /\ Occ(c, gword) > Occ(c, sword)
          /\ Occ(c, sword) >= 2
          /\ Credited(c) = Occ(c, sword)
          /\ \E p \in Positions : gword[p] = c /\ result[p] = 1
          /\ \E p \in Positions : gword[p] = c /\ result[p] = 2

\* C3: the hash of a word against itself is 6560, the value of
\* ALL_GREEN_HASH, and no other pair of words hashes to it.
C3_AllGreenUnique ==
    /\ ALL_GREEN_HASH = 6560
    /\ fpc = "done" => (hash = 6560 <=> gword = sword)

C3_Witness ==
    /\ fpc = "done"
    /\ gword = sword
    /\ hash = 6560

\* ------------------------------------------------------------------------
\* Properties of the aggregation
\* ------------------------------------------------------------------------

\* The probabilities exist.
Derived ==
    pc \in {"derived", "report", "done"}

\* The ranking exists.
Ranked ==
    pc \in {"report", "done"}

\* The counts are being written, or the probabilities have just been derived
\* from them; no later step assigns either.
Counting ==
    pc \in {"loop", "derived"}

AllMatch ==
    [p \in Positions |-> 2]

\* The distinct feedback patterns, as sequences of 8 marks, that word number g
\* produces over the whole list, the all-match pattern left out.
NonWinningPatterns(g) ==
    {ExpectedPattern(solutions[g], solutions[s]) : s \in 1..N} \ {AllMatch}

\* C4: the stored count of every processed guess is the number of distinct
\* 8-mark feedback patterns it produces over the list, not counting all-match,
\* and once derived its probability is exactly that count divided by N.
C4_CountsDistinctPatterns ==
    Counting =>
        \A g \in processed :
            LET distinct == Cardinality(NonWinningPatterns(g))
            IN  /\ num_patterns[g] = distinct
                /\ pc = "derived" =>
                      /\ p_solve2[g][2] > 0
                      /\ p_solve2[g][1] * N = distinct * p_solve2[g][2]

\* A list of 4 words whose first word gets the patterns {P1, P1, P2} from the
\* other three: count 2, probability 2/4.
C4_Witness ==
    /\ pc = "derived"
    /\ N = 4
    /\ ExpectedPattern(solutions[1], solutions[2]) = ExpectedPattern(solutions[1], solutions[3])
    /\ ExpectedPattern(solutions[1], solutions[4]) # ExpectedPattern(solutions[1], solutions[2])
    /\ AllMatch \notin {ExpectedPattern(solutions[1], solutions[s]) : s \in 2..4}
    /\ num_patterns[1] = 2
    /\ p_solve2[1] = <<2, 4>>

RECURSIVE Factorial(_)
Factorial(n) ==
    IF n <= 1 THEN 1 ELSE n * Factorial(n - 1)

\* The hashes of guess g against the first k secrets, as the program
\* computes them.
RECURSIVE HashesOf(_, _)
HashesOf(g, k) ==
    IF k = 0 THEN <<>>
    ELSE Append(HashesOf(g, k - 1), PatternHash(FeedbackRow(encoded[g], encoded[k])))

\* K(P) for the pattern of secret s: the number of list entries with the same
\* feedback, H being the feedback of the guess against every entry.
BucketSize(H, s) ==
    Cardinality({t \in 1..Len(H) : H[t] = H[s]})

\* N! times the sum over the first k secrets S # G of 1 / K(feedback(G, S)).
RECURSIVE DirectSum(_, _, _)
DirectSum(H, g, k) ==
    IF k = 0 THEN 0
    ELSE DirectSum(H, g, k - 1)
           + (IF solutions[k] # solutions[g]
              THEN Factorial(N) \div BucketSize(H, k)
              ELSE 0)

\* C5: for every guess G the direct expectation (1/N) * sum over the secrets
\* S # G of 1 / K(feedback(G, S)) equals the stored num_patterns[G] / N, and
\* the derived probability is that value.
C5_AggregationIdentity ==
    Counting =>
        \A g \in processed :
            LET direct == DirectSum(HashesOf(g, N), g, N)
            IN  /\ direct = Factorial(N) * num_patterns[g]
                /\ pc = "derived" =>
                      direct * p_solve2[g][2] = Factorial(N) * N * p_solve2[g][1]

\* A guess with a bucket of more than one secret, in a list without duplicates.
C5_Witness ==
    /\ pc = "derived"
    /\ N >= 3
    /\ \A i, j \in 1..N : i # j => solutions[i] # solutions[j]
    /\ \E g, s \in 1..N : s # g /\ BucketSize(HashesOf(g, N), s) >= 2

TwoDifferentWords ==
    \E i, j \in 1..N : solutions[i] # solutions[j]

InOpenUnitInterval(p) ==
    /\ 0 < p[1]
    /\ p[1] < p[2]

\* C6 as stated: for every accepted list, every count is in 1..N-1 and every
\* probability strictly between 0 and 1.
C6_Original ==
    /\ \A g \in processed : num_patterns[g] \in 1..(N - 1)
    /\ Derived =>
              \A g \in 1..N : p_solve2[g][2] = N /\ InOpenUnitInterval(p_solve2[g])

\* C6 amended: for every accepted list that holds at least two different
\* words, every count is in 1..N-1 and every probability strictly between 0
\* and 1.
C6_CountInRange ==
    TwoDifferentWords =>
        /\ \A g \in processed : num_patterns[g] \in 1..(N - 1)
        /\ Derived =>
              \A g \in 1..N : p_solve2[g][2] = N /\ InOpenUnitInterval(p_solve2[g])

\* A list of different words in which both bounds, 1 and N-1, are met.
C6_Witness ==
    /\ Ranked
    /\ TwoDifferentWords
    /\ N >= 3
    /\ \E g \in 1..N : num_patterns[g] = 1
    /\ \E g \in 1..N : num_patterns[g] = N - 1

\* ------------------------------------------------------------------------
\* Properties of the ranking and of the table
\* ------------------------------------------------------------------------

\* C7: ranks are in descending order of probability, in the ranking and in
\* the rows written; the best guess has the largest count and the worst guess
\* the smallest.
C7_DescendingOrder ==
    /\ Ranked =>
          /\ \A i, j \in 1..Len(order) :
                i < j => /\ FracLeq(p_solve2[order[j]], p_solve2[order[i]])
                         /\ num_patterns[order[i]] >= num_patterns[order[j]]
          /\ \A g \in 1..N : num_patterns[best_idx] >= num_patterns[g]
          /\ \A g \in 1..N : num_patterns[worst_idx] <= num_patterns[g]
    /\ \A i, j \in 1..Len(csv) : i < j => csv[i][4] >= csv[j][4] /\ csv[i][3] >= csv[j][3]

\* A finished table with different counts and with a tie.
C7_Witness ==
    /\ pc = "done"
    /\ Len(csv) >= 3
    /\ csv[1][3] > csv[Len(csv)][3]
    /\ \E i \in 1..(Len(csv) - 1) : csv[i][3] = csv[i + 1][3]

\* C8: when the run completes the table has one row per list entry: the
\* ranking is a permutation of the indices, row k has rank k, and each row
\* holds the word of its guess and the count and the probability (to 8
\* decimals) computed for that guess.
C8_OneRowPerGuess ==
    pc = "done" =>
        /\ Len(csv) = N
        /\ Len(order) = N
        /\ {order[k] : k \in 1..N} = 1..N
        /\ \A k \in 1..N :
              /\ csv[k][1] = k
              /\ csv[k][2] = solutions[order[k]]
              /\ csv[k][3] = num_patterns[order[k]]
              /\ csv[k][4] = Format8(<<num_patterns[order[k]], N>>)

\* A finished table whose ranking is not the list order and whose counts
\* differ.
C8_Witness ==
    /\ pc = "done"
    /\ N >= 3
    /\ \E k \in 1..N : order[k] # k
    /\ \E k \in 1..N : num_patterns[k] # num_patterns[1]

\* ------------------------------------------------------------------------
\* Error handling
\* ------------------------------------------------------------------------

InputError ==
    \/ ~fileExists
    \/ \E i \in 1..Len(lines) : Strip(lines[i]) # <<>> /\ Len(Strip(lines[i])) # WordLen

NothingComputed ==
    /\ processed = {}
    /\ num_patterns = <<>>
    /\ p_solve2 = <<>>
    /\ order = <<>>
    /\ ~csvOpen
    /\ csv = <<>>

\* C9: with a missing file or a non-blank record whose stripped length is not
\* 8, the run goes from its start to the error state and stays there; no
\* feedback is computed and the results table is neither created nor written.
C9_InputErrorAborts ==
    /\ [](InputError => pc \in {"start", "error"} /\ NothingComputed)
    /\ [][InputError => pc' = "error"]_vars

\* The run has stopped on a bad record that follows good ones.
C9_Witness ==
    /\ pc = "error"
    /\ err = "bad_record"
    /\ Len(lines) >= 3
    /\ Len(Strip(lines[1])) = WordLen
    /\ Len(Strip(lines[2])) = WordLen
    /\ NothingComputed

\* ------------------------------------------------------------------------
\* Independence of the guesses
\* ------------------------------------------------------------------------

\* The counts after the loop has run in list order from zeros.
RECURSIVE SequentialCounts(_, _)
SequentialCounts(enc, k) ==
    IF k = 0 THEN [i \in 1..Len(enc) |-> 0]
    ELSE GuessResult(SequentialCounts(enc, k - 1), enc, k)

\* C10: a step of the loop, in whatever order the guesses are taken, writes
\* the slot of its own guess only and leaves the list, the encoded array and
\* the other slots as they were; when the loop ends the counts are those of
\* the run in list order.
C10_GuessesIndependent ==
    [][pc = "loop" =>
          /\ solutions' = solutions
          /\ encoded' = encoded
          /\ lines' = lines
          /\ pc' = "loop" =>
                \E g \in 1..N :
                    /\ processed' = processed \cup {g}
                    /\ \A j \in (1..N) \ {g} : num_patterns'[j] = num_patterns[j]
          /\ pc' = "derived" => num_patterns = SequentialCounts(encoded, N)]_vars

\* The guesses were taken in another order than the list's: the last is done
\* while the first is not.
C10_Witness ==
    /\ pc = "loop"
    /\ N >= 3
    /\ N \in processed
    /\ 1 \notin processed
    /\ num_patterns[N] > 0

====
